---- MODULE Spec2Model ----
(***************************************************************************)
(* A model of mdn/__init__.py (keras-mdn-layer): the NumPy path            *)
(* (split_mixture_params, softmax, sample_from_categorical,                *)
(* sample_from_output) and the TensorFlow path (loss_func, sampling_func,  *)
(* mse_func) over the flat parameter row built by create_mdn_layers.       *)
(*                                                                         *)
(* Floats are fixed-point integers (Unit stands for 1.0) together with the *)
(* IEEE specials NaN, +inf and -inf.  NumPy arrays are views (buf, lo, hi) *)
(* onto buffers of a heap, so that an in-place operator writes through a   *)
(* view into the buffer the view was sliced from.                          *)
(***************************************************************************)
EXTENDS Integers, Sequences, FiniteSets, TLC

\* ------------------------------------------------------------------ bounds
MaxDim == 2      \* output_dim ranges over 1..MaxDim
MaxMix == 2      \* num_mixes ranges over 1..MaxMix
MaxSeed == 1     \* each Dense output is one of MaxSeed+1 vectors
MaxBatch == 2    \* rows of a batch handed to the TensorFlow path

\* ------------------------------------------------------------ fixed point
Unit == 8                         \* the float 1.0
PInf == Unit * Unit * Unit * Unit * Unit     \* +inf
NInf == 0 - PInf                             \* -inf
NaN == PInf + 1                              \* not a number

IsFinite(x) == x > NInf /\ x < PInf
Abs(x) == IF x < 0 THEN 0 - x ELSE x
MaxOf(a, b) == IF a >= b THEN a ELSE b
MinOf(a, b) == IF a <= b THEN a ELSE b

\* n / d rounded to nearest, d > 0
RDiv(n, d) == (2 * n + d) \div (2 * d)

FAdd(a, b) ==
    IF a = NaN \/ b = NaN THEN NaN
    ELSE IF (a = PInf /\ b = NInf) \/ (a = NInf /\ b = PInf) THEN NaN
    ELSE IF a = PInf \/ b = PInf THEN PInf
    ELSE IF a = NInf \/ b = NInf THEN NInf
    ELSE a + b

FNeg(a) == IF a = NaN THEN NaN ELSE 0 - a

FSub(a, b) == FAdd(a, FNeg(b))

FMul(a, b) ==
    IF a = NaN \/ b = NaN THEN NaN
    ELSE IF ~IsFinite(a) \/ ~IsFinite(b)
         THEN (IF a = 0 \/ b = 0 THEN NaN
               ELSE IF (a > 0) = (b > 0) THEN PInf ELSE NInf)
    ELSE IF a * b >= 0 THEN RDiv(a * b, Unit) ELSE 0 - RDiv(0 - a * b, Unit)

\* IEEE division: x/0 is +-inf, 0/0 and inf/inf are NaN (NumPy warns, no error)
FDiv(a, b) ==
    IF a = NaN \/ b = NaN THEN NaN
    ELSE IF ~IsFinite(a) /\ ~IsFinite(b) THEN NaN
    ELSE IF b = 0 THEN (IF a = 0 THEN NaN ELSE IF a > 0 THEN PInf ELSE NInf)
    ELSE IF ~IsFinite(b) THEN 0
    ELSE IF ~IsFinite(a) THEN (IF (a > 0) = (b > 0) THEN PInf ELSE NInf)
    ELSE IF (a >= 0) = (b > 0) THEN RDiv(Abs(a) * Unit, Abs(b))
    ELSE 0 - RDiv(Abs(a) * Unit, Abs(b))

FGe(a, b) == a # NaN /\ b # NaN /\ a >= b

FMax(a, b) == IF a = NaN \/ b = NaN THEN NaN ELSE MaxOf(a, b)

\* exp on the fixed-point grid, in steps of one half: Unit * e^(-k/2), k = 0..
ExpTable == <<8, 5, 3, 2, 1, 1>>

FExp(x) ==
    IF x = NaN THEN NaN
    ELSE IF x = NInf THEN 0
    ELSE IF x > 0 THEN PInf          \* exploding exp values
    ELSE LET k == RDiv(2 * (0 - x), Unit)
         IN IF k + 1 > Len(ExpTable) THEN 0 ELSE ExpTable[k + 1]

RECURSIVE ILog2(_)
ILog2(n) == IF n <= 1 THEN 0 ELSE 1 + ILog2(n \div 2)

RECURSIVE Pow2(_)
Pow2(k) == IF k = 0 THEN 1 ELSE 2 * Pow2(k - 1)

\* natural log of x >= 1.0: ln 2 * (k + frac), x = 2^k * (1 + frac)
FLog1(x) ==
    LET k == ILog2(x \div Unit)
        base == Pow2(k) * Unit
        lg2 == k * Unit + RDiv((x - base) * Unit, base)
    IN RDiv(lg2 * 693, 1000)

FLog(x) ==
    IF x = NaN \/ x < 0 THEN NaN
    ELSE IF x = 0 THEN NInf
    ELSE IF x = PInf THEN PInf
    ELSE IF x >= Unit THEN FLog1(x)
    ELSE 0 - FLog1(RDiv(Unit * Unit, x))

ISqrt(n) == CHOOSE s \in 0..n : s * s <= n /\ (s + 1) * (s + 1) > n

FSqrt(x) == IF x = NaN \/ x < 0 THEN NaN ELSE IF x = PInf THEN PInf ELSE ISqrt(x * Unit)

RECURSIVE FSum(_)
FSum(s) == IF s = <<>> THEN 0 ELSE FAdd(FSum(SubSeq(s, 1, Len(s) - 1)), s[Len(s)])

RECURSIVE FMaxSeq(_)
FMaxSeq(s) == IF Len(s) = 1 THEN s[1] ELSE FMax(FMaxSeq(SubSeq(s, 1, Len(s) - 1)), s[Len(s)])

\* ------------------------------------------------------------ NumPy arrays
\* The heap is a sequence of buffers; an array is a view [buf, lo, hi) onto one.
\* Buffer 1 is the array the caller passed in.
Whole(heap, b) == [buf |-> b, lo |-> 0, hi |-> Len(heap[b])]

Size(a) == a.hi - a.lo

Read(heap, a) == SubSeq(heap[a.buf], a.lo + 1, a.hi)

\* a Python slice bound on a length-n axis: negative counts from the end, clipped
SliceIdx(n, i) == IF i < 0 THEN MaxOf(n + i, 0) ELSE MinOf(i, n)

\* a[start:stop], basic slicing: a view onto the same buffer, never a copy
np_slice(a, start, stop) ==
    LET lo == SliceIdx(Size(a), start)
        hi == MaxOf(SliceIdx(Size(a), stop), lo)
    IN [buf |-> a.buf, lo |-> a.lo + lo, hi |-> a.lo + hi]

\* a freshly allocated array holding vals
np_new(heap, vals) ==
    [heap |-> Append(heap, vals),
     arr |-> [buf |-> Len(heap) + 1, lo |-> 0, hi |-> Len(vals)]]

\* a variant that divides in place: a /= t, written through the view
np_true_divide_inplace(heap, a, t) ==
    [heap |-> [heap EXCEPT ![a.buf] =
                  [i \in 1..Len(heap[a.buf]) |->
                      IF i > a.lo /\ i <= a.hi THEN FDiv(heap[a.buf][i], t)
                      ELSE heap[a.buf][i]]],
     arr |-> a]

\* a / t: a new array, the operand is left alone
np_true_divide(heap, a, t) ==
    np_new(heap, [i \in 1..Size(a) |-> FDiv(Read(heap, a)[i], t)])

\* a -= c: in place, written through the view into its buffer
np_isub(heap, a, c) ==
    [heap EXCEPT ![a.buf] =
        [i \in 1..Len(heap[a.buf]) |->
            IF i > a.lo /\ i <= a.hi THEN FSub(heap[a.buf][i], c)
            ELSE heap[a.buf][i]]]

\* np.exp(a): a new array
np_exp(heap, a) == np_new(heap, [i \in 1..Size(a) |-> FExp(Read(heap, a)[i])])

\* a * c: a new array
np_multiply(heap, a, c) ==
    np_new(heap, [i \in 1..Size(a) |-> FMul(Read(heap, a)[i], c)])

\* ------------------------------------------------------------- the layout
RowLen(output_dim, num_mixes) == (2 * num_mixes * output_dim) + num_mixes

\* a variant that takes the logits from the front: pi_logits = params[:num_mixes]
split_mixture_params_first(params, output_dim, num_mixes) ==
    [mus |-> np_slice(params, 0, num_mixes * output_dim),
     sigs |-> np_slice(params, num_mixes * output_dim, 2 * num_mixes * output_dim),
     pi_logits |-> np_slice(params, 0, num_mixes)]

\* mus, sigs, pi_logits: three slices (views) of params; no length check
split_mixture_params(params, output_dim, num_mixes) ==
    [mus |-> np_slice(params, 0, num_mixes * output_dim),
     sigs |-> np_slice(params, num_mixes * output_dim, 2 * num_mixes * output_dim),
     pi_logits |-> np_slice(params, 0 - num_mixes, Size(params))]

\* ------------------------------------------------------------------ softmax
\* e = np.array(w) / t; e -= e.max(); e = np.exp(e); dist = e / np.sum(e)
softmax(heap, w, t) ==
    LET e1 == np_true_divide(heap, w, t)
        h2 == np_isub(e1.heap, e1.arr, FMaxSeq(Read(e1.heap, e1.arr)))
        e2 == np_exp(h2, e1.arr)
        dist == np_true_divide(e2.heap, e2.arr, FSum(Read(e2.heap, e2.arr)))
    IN [heap |-> dist.heap, dist |-> dist.arr, e |-> Read(h2, e1.arr)]

\* ------------------------------------------------- sample_from_categorical
\* a variant of the loop that tests accumulate > r
RECURSIVE categorical_loop_strict(_, _, _, _)
categorical_loop_strict(dist, r, i, accumulate) ==
    IF i >= Len(dist) THEN -1
    ELSE LET acc == FAdd(accumulate, dist[i + 1])
         IN IF acc # NaN /\ acc > r THEN i
            ELSE categorical_loop_strict(dist, r, i + 1, acc)

\* the loop from index i (0-based) with the running sum accumulate; falling
\* out of the loop logs through tf.logging.info, which changes nothing here,
\* and returns the sentinel -1
RECURSIVE categorical_loop(_, _, _, _)
categorical_loop(dist, r, i, accumulate) ==
    IF i >= Len(dist) THEN -1
    ELSE LET acc == FAdd(accumulate, dist[i + 1])
         IN IF FGe(acc, r) THEN i
            ELSE categorical_loop(dist, r, i + 1, acc)

\* r is the draw of np.random.rand(1)
sample_from_categorical(dist, r) == categorical_loop(dist, r, 0, 0)

\* ------------------------------------------------------- sample_from_output
\* a variant that strides by num_mixes: a[m * num_mixes:(m + 1) * num_mixes]
component_slice_by_mixes(a, m, output_dim, num_mixes) ==
    np_slice(a, m * num_mixes, (m + 1) * num_mixes)

\* a[m * output_dim:(m + 1) * output_dim], the slice of component m
component_slice(a, m, output_dim, num_mixes) ==
    np_slice(a, m * output_dim, (m + 1) * output_dim)

\* np.identity(output_dim) * sig_vector, by broadcasting: the shapes
\* (output_dim, output_dim) and (n,) agree when n = output_dim, n = 1 or
\* output_dim = 1; entry (i, j) is identity[i][j] * sig_vector[j]
broadcast_ok(output_dim, n) == n = output_dim \/ n = 1 \/ output_dim = 1

cov_times_identity(output_dim, sig_vector) ==
    LET n == Len(sig_vector)
        cols == IF n = 1 THEN output_dim ELSE n
    IN [i \in 1..output_dim |->
          [j \in 1..cols |->
              LET id == IF output_dim = 1 THEN Unit
                        ELSE IF i = j THEN Unit ELSE 0
                  sg == IF n = 1 THEN sig_vector[1] ELSE sig_vector[j]
              IN FMul(id, sg)]]

\* np.random.multivariate_normal(mean, cov, 1) accepts a 1-D mean of length n
\* and a square n x n cov (a cov that is not positive semi-definite only warns)
mvn_ok(mean, cov) ==
    /\ Len(cov) >= 1
    /\ Len(cov[1]) = Len(cov)
    /\ Len(mean) = Len(cov)

\* one draw: mean[d] + z[d] * sqrt(cov[d][d]) for the standard normal draws z
mvn_draw(mean, cov, z) ==
    <<[d \in 1..Len(mean) |-> FAdd(mean[d], FMul(z[d], FSqrt(cov[d][d])))]>>

\* cov_matrix = np.identity(output_dim) * sig_vector, then the draw
sample_from_output_draw(heap, pis, m, mus_slice, mean, sig_vector, output_dim, z) ==
    LET bc == broadcast_ok(output_dim, Len(sig_vector))
        cov_matrix == IF bc THEN cov_times_identity(output_dim, sig_vector) ELSE <<>>
        ok == bc /\ mvn_ok(mean, cov_matrix)
    IN [heap |-> heap,
        err |-> IF ok THEN "none" ELSE "ValueError",
        pis |-> pis,
        m |-> m,
        sliced |-> TRUE,
        mus_slice |-> mus_slice,
        mus_vector |-> mean,
        sig_vector |-> sig_vector,
        cov_matrix |-> cov_matrix,
        sample |-> IF ok THEN mvn_draw(mean, cov_matrix, z) ELSE <<>>]

\* sig_vector = sigs[m * output_dim:(m + 1) * output_dim] * sigma_temp
sample_from_output_scale(sv, pis, m, mus_slice, output_dim, z) ==
    sample_from_output_draw(sv.heap, pis, m, mus_slice, Read(sv.heap, mus_slice),
                            Read(sv.heap, sv.arr), output_dim, z)

\* mus_vector and the sigma slice of component m: no check of m against -1
sample_from_output_slice(heap, sp, pis, m, output_dim, num_mixes, sigma_temp, z) ==
    sample_from_output_scale(
        np_multiply(heap, component_slice(sp.sigs, m, output_dim, num_mixes), sigma_temp),
        pis, m, component_slice(sp.mus, m, output_dim, num_mixes), output_dim, z)

\* m = sample_from_categorical(pis)
sample_from_output_pick(heap, sp, pis, output_dim, num_mixes, sigma_temp, r, z) ==
    sample_from_output_slice(heap, sp, pis, sample_from_categorical(pis, r),
                             output_dim, num_mixes, sigma_temp, z)

\* pis = softmax(pi_logits, t=temp)
sample_from_output_pis(sm, sp, output_dim, num_mixes, sigma_temp, r, z) ==
    sample_from_output_pick(sm.heap, sp, Read(sm.heap, sm.dist),
                            output_dim, num_mixes, sigma_temp, r, z)

sample_from_output_split(heap, sp, output_dim, num_mixes, temp, sigma_temp, r, z) ==
    sample_from_output_pis(softmax(heap, sp.pi_logits, temp), sp,
                           output_dim, num_mixes, sigma_temp, r, z)

\* r is the draw of np.random.rand, z the standard normal draws
sample_from_output(heap, params, output_dim, num_mixes, temp, sigma_temp, r, z) ==
    sample_from_output_split(heap, split_mixture_params(params, output_dim, num_mixes),
                             output_dim, num_mixes, temp, sigma_temp, r, z)

\* -------------------------------------------------------- create_mdn_layers
\* the output of a Dense layer of the given width: the weights are not part of
\* this module, so the output is one of MaxSeed+1 vectors with distinct entries
Dense(units, seed) == [i \in 1..units |-> (seed + i - 2) * (Unit \div 2)]

\* elu(x) + 1 + epsilon; epsilon is one step of the fixed-point grid
elu_plus_one_plus_epsilon(x) ==
    IF x >= 0 THEN x + Unit + 1 ELSE (FExp(x) - Unit) + Unit + 1

\* concatenate([mdn_mus, mdn_sigmas, mdn_pi])
create_mdn_layers(output_dim, num_mixes, a, b, c) ==
    LET mdn_mus == Dense(output_dim * num_mixes, a)
        pre == Dense(output_dim * num_mixes, b)
        mdn_sigmas == [i \in 1..Len(pre) |-> elu_plus_one_plus_epsilon(pre[i])]
        mdn_pi == Dense(num_mixes, c)
    IN mdn_mus \o mdn_sigmas \o mdn_pi

Seeds == 0..MaxSeed

\* ------------------------------------------------------ TensorFlow tensors
\* A tensor is its shape and its values: a scalar has shape <<>> and one value,
\* a vector shape <<n>>, a matrix shape <<rows, cols>> and a sequence of rows.
Scalar(x) == [shape |-> <<>>, v |-> <<x>>]

Vector(xs) == [shape |-> <<Len(xs)>>, v |-> xs]

\* tf.reshape(flat, [-1, width]): rows of length width, in order
tf_reshape_ok(flat, width) == Len(flat) % width = 0

tf_reshape(flat, width) ==
    [r \in 1..(Len(flat) \div width) |-> SubSeq(flat, (r - 1) * width + 1, r * width)]

Offset(sizes, k) == FSum(SubSeq(sizes, 1, k - 1))

\* tf.split(row, num_or_size_splits=sizes): consecutive pieces of those sizes
tf_split(row, sizes) ==
    [k \in 1..Len(sizes) |->
        SubSeq(row, Offset(sizes, k) + 1, Offset(sizes, k) + sizes[k])]

\* out_mu, out_sigma, out_pi, then one loc and one scale per component
mixture_parts(row, output_dim, num_mixes) ==
    LET parts == tf_split(row, <<num_mixes * output_dim,
                                 num_mixes * output_dim,
                                 num_mixes>>)
        component_splits == [i \in 1..num_mixes |-> output_dim]
    IN [out_pi |-> parts[3],
        mus |-> tf_split(parts[1], component_splits),
        sigs |-> tf_split(parts[2], component_splits)]

\* log(sum(exp(xs))), computed stably: max + log(sum(exp(x - max)))
LogSumExp(xs) ==
    LET mx == FMaxSeq(xs)
    IN FAdd(mx, FLog(FSum([i \in 1..Len(xs) |-> FExp(FSub(xs[i], mx))])))

\* tfd.MultivariateNormalDiag(loc, scale_diag).log_prob(y): the sum over the
\* dimensions of -((y - loc) / scale)^2 / 2 - log(scale) - log(2 pi) / 2
normal_diag_log_prob(loc, scale, y) ==
    FSum([d \in 1..Len(loc) |->
        LET q == FDiv(FSub(y[d], loc[d]), scale[d])
        IN FSub(FSub(FNeg(FDiv(FMul(q, q), 2 * Unit)), FLog(scale[d])),
                RDiv(919 * Unit, 1000))])

\* tfd.Mixture(cat, components).log_prob(y) for one row
mixture_log_prob(parts, y) ==
    LET lse == LogSumExp(parts.out_pi)
    IN LogSumExp([i \in 1..Len(parts.mus) |->
           FAdd(FSub(parts.out_pi[i], lse),
                normal_diag_log_prob(parts.mus[i], parts.sigs[i], y))])

\* tfd.Mixture(cat, components).sample() for one row: the categorical draw
\* picked component comp (0-based), the normal draw was z in every dimension
mixture_sample(parts, comp, z) ==
    [d \in 1..Len(parts.mus[comp + 1]) |->
        FAdd(parts.mus[comp + 1][d], FMul(z, parts.sigs[comp + 1][d]))]

\* a variant that sums without dividing: tf.reduce_sum(x)
tf_reduce_sum(xs) == Scalar(FSum(xs))

\* tf.reduce_mean(x): the mean of all the entries, a scalar
tf_reduce_mean(xs) == Scalar(FDiv(FSum(xs), Len(xs) * Unit))

\* a variant that reduces over both axes: tf.reduce_mean(x) of a matrix
tf_reduce_mean_all(rows) ==
    Scalar(FDiv(FSum([r \in 1..Len(rows) |-> FSum(rows[r])]),
                Len(rows) * Len(rows[1]) * Unit))

\* tf.reduce_mean(x, axis=-1): the mean of each row, one value per row
tf_reduce_mean_last_axis(rows) ==
    Vector([r \in 1..Len(rows) |-> FDiv(FSum(rows[r]), Len(rows[r]) * Unit)])

\* the row of y_true scored against row r of y_pred (a single row broadcasts)
TrueRow(y_true, r) == IF Len(y_true) = 1 THEN y_true[1] ELSE y_true[r]

rows_agree(y_true, y_pred) ==
    Len(y_true) = Len(y_pred) \/ Len(y_true) = 1 \/ Len(y_pred) = 1

loss_func(y_true_flat, y_pred_flat, output_dim, num_mixes) ==
    LET width == RowLen(output_dim, num_mixes)
        ok == /\ tf_reshape_ok(y_pred_flat, width)
              /\ tf_reshape_ok(y_true_flat, output_dim)
              /\ rows_agree(tf_reshape(y_true_flat, output_dim),
                            tf_reshape(y_pred_flat, width))
        y_pred == tf_reshape(y_pred_flat, width)
        y_true == tf_reshape(y_true_flat, output_dim)
        parts == [r \in 1..Len(y_pred) |-> mixture_parts(y_pred[r], output_dim, num_mixes)]
        neg == [r \in 1..Len(y_pred) |->
                   FNeg(mixture_log_prob(parts[r], TrueRow(y_true, r)))]
    IN IF ok
       THEN [err |-> "none", y_pred |-> y_pred, y_true |-> y_true, parts |-> parts,
             row_loss |-> neg, loss |-> tf_reduce_mean(neg)]
       ELSE [err |-> "InvalidArgumentError", y_pred |-> <<>>, y_true |-> <<>>,
             parts |-> <<>>, row_loss |-> <<>>, loss |-> Scalar(NaN)]

sampling_func(y_pred_flat, output_dim, num_mixes, comp, z) ==
    LET width == RowLen(output_dim, num_mixes)
        ok == tf_reshape_ok(y_pred_flat, width)
        y_pred == tf_reshape(y_pred_flat, width)
        parts == [r \in 1..Len(y_pred) |-> mixture_parts(y_pred[r], output_dim, num_mixes)]
        samp == [r \in 1..Len(y_pred) |-> mixture_sample(parts[r], comp[r], z[r])]
    IN IF ok
       THEN [err |-> "none", y_pred |-> y_pred, parts |-> parts, samp |-> samp]
       ELSE [err |-> "InvalidArgumentError", y_pred |-> <<>>, parts |-> <<>>,
             samp |-> <<>>]

mse_func(y_true_flat, y_pred_flat, output_dim, num_mixes, comp, z) ==
    LET width == RowLen(output_dim, num_mixes)
        ok == /\ tf_reshape_ok(y_pred_flat, width)
              /\ tf_reshape_ok(y_true_flat, output_dim)
              /\ rows_agree(tf_reshape(y_true_flat, output_dim),
                            tf_reshape(y_pred_flat, width))
        y_pred == tf_reshape(y_pred_flat, width)
        y_true == tf_reshape(y_true_flat, output_dim)
        parts == [r \in 1..Len(y_pred) |-> mixture_parts(y_pred[r], output_dim, num_mixes)]
        samp == [r \in 1..Len(y_pred) |-> mixture_sample(parts[r], comp[r], z[r])]
        sq == [r \in 1..Len(y_pred) |->
                  [d \in 1..output_dim |->
                      LET df == FSub(samp[r][d], TrueRow(y_true, r)[d])
                      IN FMul(df, df)]]
    IN IF ok
       THEN [err |-> "none", y_pred |-> y_pred, y_true |-> y_true, parts |-> parts,
             samp |-> samp, mse |-> tf_reduce_mean_last_axis(sq)]
       ELSE [err |-> "InvalidArgumentError", y_pred |-> <<>>, y_true |-> <<>>,
             parts |-> <<>>, samp |-> <<>>, mse |-> Scalar(NaN)]

\* ------------------------------------------------------------ the machine
\* (output_dim, num_mixes) is fixed at construction.  A call takes the machine
\* from "idle" to the name of the operation, with the array as it was passed
\* (given), the same buffer as the call left it (params), the other arguments
\* (args), the outcome (err) and the values returned or computed (ret);
\* Return hands control back to the caller.
VARIABLES op, output_dim, num_mixes, given, params, args, ret, err

vars == <<op, output_dim, num_mixes, given, params, args, ret, err>>

Temps == {0 - Unit, 0, Unit, 2 * Unit}          \* t = -1, 0, 1, 2

SigmaTemps == {Unit, 2 * Unit}                  \* sigma_temp = 1, 2

Draws == 0..(Unit - 1)                          \* np.random.rand: [0, 1)

Noise == {0 - Unit, Unit}                       \* standard normal draws -1, 1

\* n normal draws: z0, -z0, z0, ...
Draw(n, z0) == [i \in 1..n |-> IF i % 2 = 1 THEN z0 ELSE 0 - z0]

LogitVals == {0 - Unit, 0, Unit \div 2, Unit}

DistVals == {0, Unit \div 4, Unit \div 2, Unit, NaN}

Pads == {-1, 0, 1}

\* a row as create_mdn_layers builds it, cut or extended by one entry
Resize(row, pad) ==
    IF pad < 0 THEN SubSeq(row, 1, Len(row) - 1)
    ELSE IF pad > 0 THEN Append(row, Unit)
    ELSE row

RECURSIVE Flatten(_)
Flatten(rows) ==
    IF rows = <<>> THEN <<>>
    ELSE Flatten(SubSeq(rows, 1, Len(rows) - 1)) \o rows[Len(rows)]

\* a batch of B rows of create_mdn_layers, flattened; the rows are the same
\* row when same holds and differ in their means otherwise
PredBatch(B, a, b, c, same) ==
    Flatten([r \in 1..B |->
        create_mdn_layers(output_dim, num_mixes,
                          IF same THEN a ELSE a + r - 1, b, c)])

\* the targets of the batch: one row repeated, or rows that move twice as far
\* as the means do
TrueBatch(B, ys, same) ==
    Flatten([r \in 1..B |-> Dense(output_dim, IF same THEN ys ELSE ys + 2 * (r - 1))])

Init ==
    /\ op = "idle"
    /\ output_dim \in 1..MaxDim
    /\ num_mixes \in 1..MaxMix
    /\ given = <<>>
    /\ params = <<>>
    /\ args = <<>>
    /\ ret = <<>>
    /\ err = "none"

CallSplit ==
    /\ op = "idle"
    /\ \E a \in Seeds, b \in Seeds, c \in Seeds, pad \in Pads :
       \E p \in {Resize(create_mdn_layers(output_dim, num_mixes, a, b, c), pad)} :
            /\ given' = p
            /\ params' = p
            /\ ret' = split_mixture_params(Whole(<<p>>, 1), output_dim, num_mixes)
            /\ args' = [pad |-> pad]
    /\ op' = "split_mixture_params"
    /\ err' = "none"
    /\ UNCHANGED <<output_dim, num_mixes>>

CallSoftmax ==
    /\ op = "idle"
    /\ \E w \in [1..num_mixes -> LogitVals], t \in Temps :
       \E res \in {softmax(<<w>>, Whole(<<w>>, 1), t)} :
            /\ given' = w
            /\ params' = res.heap[1]
            /\ ret' = [dist |-> Read(res.heap, res.dist), e |-> res.e]
            /\ args' = [t |-> t]
    /\ op' = "softmax"
    /\ err' = "none"
    /\ UNCHANGED <<output_dim, num_mixes>>

CallCategorical ==
    /\ op = "idle"
    /\ \E dist \in [1..num_mixes -> DistVals], r \in Draws :
         /\ given' = dist
         /\ params' = dist
         /\ ret' = [m |-> sample_from_categorical(dist, r)]
         /\ args' = [r |-> r]
    /\ op' = "sample_from_categorical"
    /\ err' = "none"
    /\ UNCHANGED <<output_dim, num_mixes>>

CallSampleFromOutput ==
    /\ op = "idle"
    /\ \E a \in Seeds, b \in Seeds, c \in Seeds, temp \in Temps,
          sigma_temp \in SigmaTemps, r \in Draws, z0 \in Noise :
       \E p \in {create_mdn_layers(output_dim, num_mixes, a, b, c)} :
       \E res \in {sample_from_output(<<p>>, Whole(<<p>>, 1), output_dim, num_mixes,
                                      temp, sigma_temp, r, Draw(output_dim, z0))} :
            /\ given' = p
            /\ params' = res.heap[1]
            /\ ret' = res
            /\ err' = res.err
            /\ args' = [temp |-> temp, sigma_temp |-> sigma_temp, r |-> r,
                        z |-> Draw(output_dim, z0)]
    /\ op' = "sample_from_output"
    /\ UNCHANGED <<output_dim, num_mixes>>

CallLoss ==
    /\ op = "idle"
    /\ \E B \in 1..MaxBatch, a \in Seeds, b \in Seeds, c \in Seeds, ys \in Seeds,
          same \in BOOLEAN :
       \E y_pred \in {PredBatch(B, a, b, c, same)}, y_true \in {TrueBatch(B, ys, same)} :
       \E res \in {loss_func(y_true, y_pred, output_dim, num_mixes)} :
            /\ given' = y_pred
            /\ params' = y_pred
            /\ ret' = res
            /\ err' = res.err
            /\ args' = [y_true |-> y_true, B |-> B, same |-> same]
    /\ op' = "loss_func"
    /\ UNCHANGED <<output_dim, num_mixes>>

CallSampling ==
    /\ op = "idle"
    /\ \E B \in 1..MaxBatch, a \in Seeds, b \in Seeds, c \in Seeds :
       \E comp \in [1..B -> 0..(num_mixes - 1)], z \in {Draw(B, z0) : z0 \in Noise} :
       \E y_pred \in {PredBatch(B, a, b, c, FALSE)} :
       \E res \in {sampling_func(y_pred, output_dim, num_mixes, comp, z)} :
            /\ given' = y_pred
            /\ params' = y_pred
            /\ ret' = res
            /\ err' = res.err
            /\ args' = [B |-> B, comp |-> comp, z |-> z]
    /\ op' = "sampling_func"
    /\ UNCHANGED <<output_dim, num_mixes>>

CallMse ==
    /\ op = "idle"
    /\ \E B \in 1..MaxBatch, a \in Seeds, b \in Seeds, c \in Seeds, ys \in Seeds :
       \E comp \in [1..B -> 0..(num_mixes - 1)], z \in {Draw(B, z0) : z0 \in Noise} :
       \E y_pred \in {PredBatch(B, a, b, c, FALSE)}, y_true \in {TrueBatch(B, ys, FALSE)} :
       \E res \in {mse_func(y_true, y_pred, output_dim, num_mixes, comp, z)} :
            /\ given' = y_pred
            /\ params' = y_pred
            /\ ret' = res
            /\ err' = res.err
            /\ args' = [y_true |-> y_true, B |-> B, comp |-> comp, z |-> z]
    /\ op' = "mse_func"
    /\ UNCHANGED <<output_dim, num_mixes>>

Return ==
    /\ op # "idle"
    /\ op' = "idle"
    /\ given' = <<>>
    /\ params' = <<>>
    /\ args' = <<>>
    /\ ret' = <<>>
    /\ err' = "none"
    /\ UNCHANGED <<output_dim, num_mixes>>

Next ==
    \/ CallSplit
    \/ CallSoftmax
    \/ CallCategorical
    \/ CallSampleFromOutput
    \/ CallLoss
    \/ CallSampling
    \/ CallMse
    \/ Return

Spec == Init /\ [][Next]_vars

\* ------------------------------------------------------------------ claims

\* C1: for a parameter vector of length exactly 2*K*D+K, split_mixture_params
\* returns three contiguous pieces, mus = [0, K*D), sigmas = [K*D, 2*K*D) and
\* weight logits = [2*K*D, 2*K*D+K), of lengths K*D, K*D and K, and their
\* concatenation in that order is the input vector.
C1_SplitPartition ==
    (op = "split_mixture_params" /\ Len(given) = RowLen(output_dim, num_mixes)) =>
        LET KD == num_mixes * output_dim
        IN /\ ret.mus = [buf |-> 1, lo |-> 0, hi |-> KD]
           /\ ret.sigs = [buf |-> 1, lo |-> KD, hi |-> 2 * KD]
           /\ ret.pi_logits = [buf |-> 1, lo |-> 2 * KD, hi |-> 2 * KD + num_mixes]
           /\ Len(Read(<<params>>, ret.mus)) = KD
           /\ Len(Read(<<params>>, ret.sigs)) = KD
           /\ Len(Read(<<params>>, ret.pi_logits)) = num_mixes
           /\ Read(<<params>>, ret.mus) \o Read(<<params>>, ret.sigs)
                 \o Read(<<params>>, ret.pi_logits) = given

C1_Witness ==
    /\ op = "split_mixture_params"
    /\ output_dim = 2
    /\ num_mixes = 2
    /\ Len(given) = 10
    /\ Read(<<params>>, ret.pi_logits) = SubSeq(given, 9, 10)

\* C2: on a distribution (no NaN entry) and a draw r in [0, 1),
\* sample_from_categorical returns the smallest index whose prefix sum
\* dist[0] + ... + dist[i] is >= r, and -1 exactly when no prefix sum reaches
\* r; dist = [1.0] gives index 0 for every draw.
C2_CategoricalFirstIndex ==
    (op = "sample_from_categorical" /\ \A j \in 1..Len(given) : given[j] # NaN) =>
        LET hits == {i \in 0..(Len(given) - 1) : FSum(SubSeq(given, 1, i + 1)) >= args.r}
        IN /\ (ret.m = -1) <=> (hits = {})
           /\ hits # {} => (ret.m \in hits /\ \A i \in hits : ret.m <= i)
           /\ given = <<Unit>> => ret.m = 0

C2_Witness ==
    /\ op = "sample_from_categorical"
    /\ \A j \in 1..Len(given) : given[j] # NaN
    /\ ret.m = 1
    /\ given[1] > 0
    /\ given[1] < args.r
    /\ given[1] + given[2] = args.r

\* C3: split_mixture_params signals a ShapeError whenever the length of the
\* input differs from 2*K*D+K.
C3_ShapeErrorOnWrongLength ==
    (op = "split_mixture_params" /\ Len(given) # RowLen(output_dim, num_mixes)) =>
        err = "ShapeError"

\* C4: sample_from_output takes the mean and sigma slices only for a
\* component index m in [0, K), never for the sentinel -1.
C4_SentinelCheckedBeforeSlicing ==
    (op = "sample_from_output" /\ ret.sliced) => ret.m \in 0..(num_mixes - 1)

\* C5: a temperature t <= 0 given to softmax or to sample_from_output is
\* rejected with an error; no distribution and no sample comes from it.
C5_NonPositiveTemperatureRejected ==
    /\ (op = "softmax" /\ args.t <= 0) => err # "none"
    /\ (op = "sample_from_output" /\ args.temp <= 0) =>
           (err # "none" /\ ret.sample = <<>>)

\* C6: in sample_from_output the draw for component m has mean mus[m*D+d] and
\* a diagonal covariance whose entry (d, d) is (sigs[m*D+d] * sigma_temp)^2,
\* zero off the diagonal.
C6_CovarianceIsSquaredScale ==
    (op = "sample_from_output" /\ err = "none") =>
        LET KD == num_mixes * output_dim
        IN \A d \in 1..output_dim :
             LET s == FMul(given[KD + ret.m * output_dim + d], args.sigma_temp)
             IN /\ ret.mus_vector[d] = given[ret.m * output_dim + d]
                /\ ret.cov_matrix[d][d] = FMul(s, s)
                /\ \A j \in 1..output_dim : j # d => ret.cov_matrix[d][j] = 0

\* C7: loss_func reshapes the predictions to rows of length 2*K*D+K and the
\* targets to rows of length D, in order, and returns the scalar mean over the
\* rows of the negated per-row log-likelihood; on a batch of B identical
\* (target, prediction) rows the loss is the loss of the single row.
C7_LossIsMeanOverRows ==
    op = "loss_func" =>
        LET W == RowLen(output_dim, num_mixes)
            B == args.B
            total == FSum(ret.row_loss)
            single == loss_func(SubSeq(args.y_true, 1, output_dim),
                                SubSeq(given, 1, W), output_dim, num_mixes)
        IN /\ err = "none"
           /\ Len(ret.y_pred) = B
           /\ Len(ret.y_true) = B
           /\ Len(ret.row_loss) = B
           /\ \A r \in 1..B :
                /\ ret.y_pred[r] = SubSeq(given, (r - 1) * W + 1, r * W)
                /\ ret.y_true[r] =
                       SubSeq(args.y_true, (r - 1) * output_dim + 1, r * output_dim)
                /\ ret.row_loss[r] =
                       FNeg(mixture_log_prob(
                                mixture_parts(ret.y_pred[r], output_dim, num_mixes),
                                ret.y_true[r]))
           /\ ret.loss.shape = <<>>
           /\ 2 * Abs(B * ret.loss.v[1] - total) <= B
           /\ args.same => ret.loss = single.loss

C7_Witness ==
    /\ op = "loss_func"
    /\ args.same
    /\ args.B = 2
    /\ output_dim = 2
    /\ num_mixes = 2
    /\ ret.loss.v[1] # 0
    /\ ret.loss.v[1] = ret.row_loss[1]

\* C8 as stated: mse_func returns a single scalar, the mean over the rows of
\* the batch of the squared Euclidean distance (the sum over the D dimensions
\* of the squared difference) between the row's sample and its target.
C8_MseScalarMeanOverRows ==
    (op = "mse_func" /\ err = "none") =>
        LET B == args.B
            sqdist == [r \in 1..B |->
                FSum([d \in 1..output_dim |->
                    LET df == ret.samp[r][d] - args.y_true[(r - 1) * output_dim + d]
                    IN FMul(df, df)])]
        IN /\ ret.mse.shape = <<>>
           /\ 2 * Abs(B * ret.mse.v[1] - FSum(sqdist)) <= B

\* C8 as amended: mse_func returns one value per row of the batch (a vector
\* of length B, not a scalar): for each row the mean over the D dimensions of
\* the squared difference between the row's sample and its target, that is
\* the row's squared Euclidean distance divided by D.
C8_MsePerRowMeanOverDims ==
    (op = "mse_func" /\ err = "none") =>
        LET B == args.B
            sqdist == [r \in 1..B |->
                FSum([d \in 1..output_dim |->
                    LET df == ret.samp[r][d] - args.y_true[(r - 1) * output_dim + d]
                    IN FMul(df, df)])]
        IN /\ ret.mse.shape = <<B>>
           /\ Len(ret.mse.v) = B
           /\ \A r \in 1..B :
                2 * Abs(output_dim * ret.mse.v[r] - sqdist[r]) <= output_dim

C8_Witness ==
    /\ op = "mse_func"
    /\ err = "none"
    /\ args.B = 2
    /\ output_dim = 2
    /\ ret.mse.shape = <<2>>
    /\ ret.mse.v[1] # ret.mse.v[2]
    /\ ret.mse.v[1] > 0

\* C9: split_mixture_params, softmax (with its in-place subtraction of the
\* maximum) and sample_from_output (with its scaling of the sigma slice)
\* leave every entry of the array they were given unchanged.
C9_InputNotMutated ==
    op \in {"split_mixture_params", "softmax", "sample_from_output"} =>
        params = given

C9_Witness ==
    /\ op = "softmax"
    /\ args.t = 2 * Unit
    /\ ret.e # given
    /\ \E i \in 1..Len(given) : given[i] > 0
    /\ params = given

\* C10: on every row built by create_mdn_layers the TensorFlow path and the
\* NumPy path read component i from the same places: its means from
\* [i*D, (i+1)*D), its sigmas from [K*D+i*D, K*D+(i+1)*D) and its logit from
\* 2*K*D+i.
C10_PathsAgreeOnLayout ==
    LET D == output_dim
        K == num_mixes
        W == RowLen(output_dim, num_mixes)
    IN /\ (op \in {"loss_func", "sampling_func", "mse_func"} /\ err = "none") =>
            \A r \in 1..args.B : \A i \in 0..(K - 1) :
               LET row == SubSeq(given, (r - 1) * W + 1, r * W)
                   np == split_mixture_params(Whole(<<row>>, 1), D, K)
               IN /\ ret.parts[r].mus[i + 1] = SubSeq(row, i * D + 1, (i + 1) * D)
                  /\ ret.parts[r].mus[i + 1] =
                         Read(<<row>>, component_slice(np.mus, i, D, K))
                  /\ ret.parts[r].sigs[i + 1] =
                         SubSeq(row, K * D + i * D + 1, K * D + (i + 1) * D)
                  /\ ret.parts[r].sigs[i + 1] =
                         Read(<<row>>, component_slice(np.sigs, i, D, K))
                  /\ ret.parts[r].out_pi[i + 1] = row[2 * K * D + i + 1]
                  /\ ret.parts[r].out_pi[i + 1] = Read(<<row>>, np.pi_logits)[i + 1]
       /\ (op \in {"sampling_func", "mse_func"} /\ err = "none") =>
            \A r \in 1..args.B : \A d \in 1..D :
               LET row == SubSeq(given, (r - 1) * W + 1, r * W)
                   i == args.comp[r]
               IN ret.samp[r][d] =
                      row[i * D + d] + FMul(args.z[r], row[K * D + i * D + d])
       /\ (op = "sample_from_output" /\ ret.m >= 0) =>
            LET tfp == mixture_parts(given, D, K)
                i == ret.m
            IN /\ ret.mus_slice = [buf |-> 1, lo |-> i * D, hi |-> (i + 1) * D]
               /\ ret.mus_vector = tfp.mus[i + 1]
               /\ ret.mus_vector = SubSeq(given, i * D + 1, (i + 1) * D)
               /\ ret.sig_vector =
                      [d \in 1..D |-> FMul(tfp.sigs[i + 1][d], args.sigma_temp)]
               /\ ret.sig_vector =
                      [d \in 1..D |-> FMul(given[K * D + i * D + d], args.sigma_temp)]
               /\ Len(ret.pis) = K
               /\ Len(tfp.out_pi) = K
               /\ tfp.out_pi = SubSeq(given, 2 * K * D + 1, 2 * K * D + K)

C10_Witness ==
    /\ op = "sample_from_output"
    /\ err = "none"
    /\ output_dim = 2
    /\ num_mixes = 2
    /\ ret.m = 1
    /\ ret.mus_vector = SubSeq(given, 3, 4)
    /\ ret.mus_vector = mixture_parts(given, output_dim, num_mixes).mus[2]

====
